---- MODULE Spec2Model ----
(***************************************************************************)
(* Model of inseq's AttributionModel (src/inseq/models/attribution_model.py)*)
(* One AttributionModel instance, its stored default attribution method,   *)
(* the FeatureAttribution instances loaded so far and their hook state.    *)
(* Every public call is one action; the calls it makes on its              *)
(* collaborators are written to a call log kept in the record of the last  *)
(* call.                                                                   *)
(***************************************************************************)
EXTENDS Integers, Sequences, FiniteSets, TLC

\* Longest list of texts the callers pass.
MaxLen == 2
\* Number of FeatureAttribution instances that may be loaded in one run.
MaxInstances == 2

\* Python's None for an omitted method name, and for "no stored method".
None == "None"
NoInst == 0
Methods == {"A", "B"}
MethodArgs == {None} \cup Methods

NoError == "none"
MissingAttributionMethodError == "MissingAttributionMethodError"
LengthMismatchError == "LengthMismatchError"

(***************************************************************************)
(* Python values that travel through attribute.  A str, a list of str, a   *)
(* BatchEncoding and None are kept apart by a tag; a str keeps its         *)
(* characters in s, a list or batch its elements in items.                 *)
(***************************************************************************)
PyNone == [tag |-> "none", s |-> "", items |-> <<>>]
PyStr(s) == [tag |-> "str", s |-> s, items |-> <<>>]
PyList(xs) == [tag |-> "list", s |-> "", items |-> xs]
BatchEncoding(xs) == [tag |-> "enc", s |-> "", items |-> xs]

\* len() of a str: its number of characters.
StrLen(s) == CASE s = "" -> 0 [] s = "xy" -> 2 [] OTHER -> 1

\* len() of a value.
PyLen(v) == IF v.tag = "str" THEN StrLen(v.s) ELSE Len(v.items)

\* Truth value of a value (`not texts`, `if reference_texts`).
Truthy(v) ==
  CASE v.tag = "none" -> FALSE
    [] v.tag = "enc" -> TRUE
    [] OTHER -> PyLen(v) > 0

\* isinstance(v, str)
IsStr(v) == v.tag = "str"

\* Truth value of a method name (`not method`).
TruthyMethod(m) == m # None /\ m # ""

Repeat(x, n) == [i \in 1..n |-> x]

\* What callers pass as texts and as reference_texts.
Strs == {PyStr(""), PyStr("xy")}
Lists == {PyList(Repeat("x", n)) : n \in 0..MaxLen}
TextInputs == Strs \cup Lists
RefInputs == {PyNone} \cup Strs \cup Lists

VARIABLES
  phase,               \* "new": allocated, __init__ not run; "failed": __init__ raised; "ready"
  attribution_method,  \* self.attribution_method: an instance id, or NoInst
  is_hooked,           \* self.is_hooked
  methods,             \* methods[i]: the method name of FeatureAttribution instance i
  hooked,              \* the instances whose hooks are attached to the wrapped model
  last,                \* the record of the last call
  prev                 \* the resolution before it, in short, when last is a resolution
                       \* that follows another one

vars == <<phase, attribution_method, is_hooked, methods, hooked, last, prev>>

\* The fields of the object and of its collaborators, as one value.
State(am, hk, ms, hs) == [am |-> am, is_hooked |-> hk, methods |-> ms, hooked |-> hs]
Self == State(attribution_method, is_hooked, methods, hooked)

\* One entry of the call log: the callee, the instance it ran on, its texts
\* and references (or output), and the hooks attached while it ran and after.
Call(f, inst, texts, refs, during, after) ==
  [f |-> f, inst |-> inst, texts |-> texts, refs |-> refs, during |-> during, after |-> after]

(***************************************************************************)
(* FeatureAttribution, the collaborator of ..attr.feat.feature_attribution *)
(***************************************************************************)
\* Hooks are required by some attribution methods only: A instruments the
\* wrapped model, B does not.
NeedsHooks(method) == method = "A"

\* FeatureAttribution.load(method, attribution_model=self): a new instance
\* bound to the model, its hooks attached when the method has any.
FeatureAttribution_load(st, method) ==
  LET inst == Len(st.methods) + 1
      hs == IF NeedsHooks(method) THEN st.hooked \cup {inst} ELSE st.hooked
  IN [st |-> State(st.am, hs # {}, Append(st.methods, method), hs),
      inst |-> inst,
      calls |-> <<Call("load", inst, PyNone, PyNone, st.hooked, hs)>>]

\* inst.unhook(): detaches the instance's hooks; safe when already detached.
unhook(st, inst) ==
  LET hs == st.hooked \ {inst}
  IN [st |-> State(st.am, hs # {}, st.methods, hs),
      calls |-> <<Call("unhook", inst, PyNone, PyNone, st.hooked, hs)>>]

\* inst.prepare_and_attribute(texts, reference_texts, ...): one
\* FeatureAttributionSequenceOutput per input pair.
prepare_and_attribute(st, inst, texts, refs) ==
  [st |-> st,
   out |-> PyList(Repeat("attr", Len(texts.items))),
   calls |-> <<Call("prepare_and_attribute", inst, texts, refs, st.hooked, st.hooked)>>]

(***************************************************************************)
(* AttributionModel                                                        *)
(***************************************************************************)
\* Shape of what get_attribution_method hands back.
Resolved(st, ret, err, calls) == [st |-> st, ret |-> ret, err |-> err, calls |-> calls]

\* Mutant: the stored default is not unhooked before the new method loads.
get_attribution_method_no_unhook(st, method, override) ==
  IF ~TruthyMethod(method)
  THEN IF st.am = NoInst
       THEN Resolved(st, NoInst, MissingAttributionMethodError, <<>>)
       ELSE Resolved(st, st.am, NoError, <<>>)
  ELSE LET l == FeatureAttribution_load(st, method)
       IN IF override \/ st.am = NoInst
          THEN Resolved([l.st EXCEPT !.am = l.inst], l.inst, NoError, l.calls)
          ELSE Resolved(l.st, l.inst, NoError, l.calls)

\* Mutant: the given method always becomes the stored default.
get_attribution_method_always_override(st, method, override) ==
  IF ~TruthyMethod(method)
  THEN IF st.am = NoInst
       THEN Resolved(st, NoInst, MissingAttributionMethodError, <<>>)
       ELSE Resolved(st, st.am, NoError, <<>>)
  ELSE LET u == IF st.am # NoInst THEN unhook(st, st.am) ELSE [st |-> st, calls |-> <<>>]
           l == FeatureAttribution_load(u.st, method)
       IN Resolved([l.st EXCEPT !.am = l.inst], l.inst, NoError, u.calls \o l.calls)

\* Mutant: the stored default is unhooked only when it is replaced.
get_attribution_method_unhook_on_override(st, method, override) ==
  IF ~TruthyMethod(method)
  THEN IF st.am = NoInst
       THEN Resolved(st, NoInst, MissingAttributionMethodError, <<>>)
       ELSE Resolved(st, st.am, NoError, <<>>)
  ELSE IF override \/ st.am = NoInst
       THEN LET u == IF st.am # NoInst THEN unhook(st, st.am) ELSE [st |-> st, calls |-> <<>>]
                l == FeatureAttribution_load(u.st, method)
            IN Resolved([l.st EXCEPT !.am = l.inst], l.inst, NoError, u.calls \o l.calls)
       ELSE LET l == FeatureAttribution_load(st, method)
            IN Resolved(l.st, l.inst, NoError, l.calls)

\* Mutant: a missing method is handed back as None instead of raising.
get_attribution_method_no_raise(st, method, override) ==
  IF ~TruthyMethod(method)
  THEN Resolved(st, st.am, NoError, <<>>)
  ELSE LET u == IF st.am # NoInst THEN unhook(st, st.am) ELSE [st |-> st, calls |-> <<>>]
           l == FeatureAttribution_load(u.st, method)
       IN IF override \/ u.st.am = NoInst
          THEN Resolved([l.st EXCEPT !.am = l.inst], l.inst, NoError, u.calls \o l.calls)
          ELSE Resolved(l.st, l.inst, NoError, u.calls \o l.calls)

\* get_attribution_method(method, override_default_attribution)
get_attribution_method(st, method, override) ==
  IF ~TruthyMethod(method)
  THEN IF st.am = NoInst
       THEN Resolved(st, NoInst, MissingAttributionMethodError, <<>>)
       ELSE Resolved(st, st.am, NoError, <<>>)
  ELSE LET u == IF st.am # NoInst THEN unhook(st, st.am) ELSE [st |-> st, calls |-> <<>>]
           l == FeatureAttribution_load(u.st, method)
       IN IF override \/ u.st.am = NoInst
          THEN Resolved([l.st EXCEPT !.am = l.inst], l.inst, NoError, u.calls \o l.calls)
          ELSE Resolved(l.st, l.inst, NoError, u.calls \o l.calls)

\* Mutant: a single string is not wrapped into a one-element list.
format_input_texts_no_wrap(texts, ref_texts) ==
  IF Truthy(ref_texts) /\ PyLen(texts) # PyLen(ref_texts)
  THEN [texts |-> texts, refs |-> ref_texts, err |-> LengthMismatchError]
  ELSE [texts |-> texts, refs |-> ref_texts, err |-> NoError]

\* format_input_texts(texts, ref_texts)
format_input_texts(texts, ref_texts) ==
  LET t == IF IsStr(texts) THEN PyList(<<texts.s>>) ELSE texts
      r == IF IsStr(ref_texts) THEN PyList(<<ref_texts.s>>) ELSE ref_texts
  IN IF Truthy(r) /\ PyLen(t) # PyLen(r)
     THEN [texts |-> t, refs |-> r, err |-> LengthMismatchError]
     ELSE [texts |-> t, refs |-> r, err |-> NoError]

\* encode_texts(texts, return_baseline=True): the batch of the texts.
encode_texts(texts) == BatchEncoding(texts.items)

\* The adapter's generate: one output per input; it attaches no hook.
generate_body(st, encodings) ==
  LET out == PyList(Repeat("gen", Len(encodings.items)))
  IN [st |-> st, out |-> out,
      calls |-> <<Call("generate", NoInst, encodings, out, st.hooked, st.hooked)>>]

\* The @unhooked decorator of .model_decorators: the state the decorated
\* function runs in and returns in, with every hook detached.
unhooked(st) == State(st.am, FALSE, st.methods, {})

\* Mutant: generate loses its @unhooked decorator.
generate_not_unhooked(st, encodings) == generate_body(st, encodings)

\* generate(encodings, return_generation_output=False), decorated @unhooked
generate(st, encodings) == generate_body(unhooked(st), encodings)

\* What a call hands back: the state it leaves, the method instance or the
\* value it returns, the error it raises, and the calls it made.
Outcome(st, ret, out, err, calls) ==
  [st |-> st, ret |-> ret, out |-> out, err |-> err, calls |-> calls]

\* Mutant: empty texts are not returned early.
attribute_no_empty_return(st, texts, reference_texts, method, override) ==
    LET f == format_input_texts(texts, reference_texts)
    IN IF f.err # NoError
       THEN Outcome(st, NoInst, PyNone, f.err, <<>>)
       ELSE
         LET gen == ~Truthy(f.refs)
             enc == encode_texts(f.texts)
             g == generate(st, enc)
             st1 == IF gen THEN g.st ELSE st
             texts1 == IF gen THEN enc ELSE f.texts
             refs1 == IF gen THEN g.out ELSE f.refs
             calls1 == IF gen
                       THEN <<Call("encode_texts", NoInst, f.texts, PyNone, st.hooked, st.hooked)>>
                            \o g.calls
                       ELSE <<>>
             m == get_attribution_method(st1, method, override)
             calls2 == calls1 \o m.calls
         IN IF m.err # NoError
            THEN Outcome(m.st, NoInst, PyNone, m.err, calls2)
            ELSE LET a == prepare_and_attribute(m.st, m.ret, texts1, refs1)
                 IN Outcome(a.st, NoInst, a.out, NoError, calls2 \o a.calls)

\* Mutant: the outputs of generate are dropped; the method gets the
\* references the caller passed.
attribute_drops_generated(st, texts, reference_texts, method, override) ==
  IF ~Truthy(texts)
  THEN Outcome(st, NoInst, PyList(<<>>), NoError, <<>>)
  ELSE
    LET f == format_input_texts(texts, reference_texts)
    IN IF f.err # NoError
       THEN Outcome(st, NoInst, PyNone, f.err, <<>>)
       ELSE
         LET gen == ~Truthy(f.refs)
             enc == encode_texts(f.texts)
             g == generate(st, enc)
             st1 == IF gen THEN g.st ELSE st
             texts1 == IF gen THEN enc ELSE f.texts
             refs1 == f.refs
             calls1 == IF gen
                       THEN <<Call("encode_texts", NoInst, f.texts, PyNone, st.hooked, st.hooked)>>
                            \o g.calls
                       ELSE <<>>
             m == get_attribution_method(st1, method, override)
             calls2 == calls1 \o m.calls
         IN IF m.err # NoError
            THEN Outcome(m.st, NoInst, PyNone, m.err, calls2)
            ELSE LET a == prepare_and_attribute(m.st, m.ret, texts1, refs1)
                 IN Outcome(a.st, NoInst, a.out, NoError, calls2 \o a.calls)

\* attribute(texts, reference_texts, method, override_default_attribution, ...)
\* attr_pos_start, attr_pos_end and the keyword options are handed through
\* to the method unchanged and are left out.
attribute(st, texts, reference_texts, method, override) ==
  IF ~Truthy(texts)
  THEN Outcome(st, NoInst, PyList(<<>>), NoError, <<>>)
  ELSE
    LET f == format_input_texts(texts, reference_texts)
    IN IF f.err # NoError
       THEN Outcome(st, NoInst, PyNone, f.err, <<>>)
       ELSE
         LET gen == ~Truthy(f.refs)
             enc == encode_texts(f.texts)
             g == generate(st, enc)
             st1 == IF gen THEN g.st ELSE st
             texts1 == IF gen THEN enc ELSE f.texts
             refs1 == IF gen THEN g.out ELSE f.refs
             calls1 == IF gen
                       THEN <<Call("encode_texts", NoInst, f.texts, PyNone, st.hooked, st.hooked)>>
                            \o g.calls
                       ELSE <<>>
             m == get_attribution_method(st1, method, override)
             calls2 == calls1 \o m.calls
         IN IF m.err # NoError
            THEN Outcome(m.st, NoInst, PyNone, m.err, calls2)
            ELSE LET a == prepare_and_attribute(m.st, m.ret, texts1, refs1)
                 IN Outcome(a.st, NoInst, a.out, NoError, calls2 \o a.calls)

\* Mutant: the constructor does not resolve its default method.
init_no_resolution(st, method) ==
  Resolved(State(NoInst, FALSE, st.methods, st.hooked), NoInst, NoError, <<>>)

\* __init__(attribution_method): lines 25-27; setup() only moves the wrapped
\* model to its device.
init(st, method) ==
  get_attribution_method(State(NoInst, FALSE, st.methods, st.hooked), method, FALSE)

(***************************************************************************)
(* The state machine                                                       *)
(***************************************************************************)
Record(op, texts, refs, method, override, pre, r) ==
  [op |-> op, texts |-> texts, refs |-> refs, method |-> method, override |-> override,
   pre |-> pre, ret |-> r.ret, out |-> r.out, err |-> r.err, calls |-> r.calls]

NoCall ==
  [op |-> "none", texts |-> PyNone, refs |-> PyNone, method |-> None, override |-> FALSE,
   pre |-> State(NoInst, FALSE, <<>>, {}), ret |-> NoInst, out |-> PyNone, err |-> NoError,
   calls |-> <<>>]

\* The entries of a call log that are calls of f.
CallsOf(calls, f) == SelectSeq(calls, LAMBDA c : c.f = f)

\* The instances a call unhooked, in order.
Unhooked(calls) ==
  LET u == CallsOf(calls, "unhook") IN [i \in 1..Len(u) |-> u[i].inst]

\* The calls that resolve a method and do nothing else.
Resolutions == {"init", "get_attribution_method"}

Short(rec) ==
  [op |-> rec.op, method |-> rec.method, override |-> rec.override, pre |-> rec.pre.am,
   ret |-> rec.ret, err |-> rec.err, unhooks |-> Unhooked(rec.calls)]

Init ==
  /\ phase = "new"
  /\ attribution_method = NoInst
  /\ is_hooked = FALSE
  /\ methods = <<>>
  /\ hooked = {}
  /\ last = NoCall
  /\ prev = Short(NoCall)

Apply(op, texts, refs, method, override, r) ==
  /\ Len(r.st.methods) <= MaxInstances
  /\ attribution_method' = r.st.am
  /\ is_hooked' = r.st.is_hooked
  /\ methods' = r.st.methods
  /\ hooked' = r.st.hooked
  /\ last' = Record(op, texts, refs, method, override, Self, r)
  /\ prev' = IF op = "get_attribution_method" /\ last.op \in Resolutions
             THEN Short(last)
             ELSE Short(NoCall)

\* model = Adapter(..., attribution_method).  When line 27 raises, the
\* instance is left with attribution_method = None (line 25): phase "failed"
\* is the spec's NoMethod state, and whoever holds the instance can still
\* call its methods.
Construct ==
  /\ phase = "new"
  /\ \E method \in MethodArgs :
       LET g == init(Self, method)
           r == Outcome(g.st, g.ret, PyNone, g.err, g.calls)
       IN /\ Apply("init", PyNone, PyNone, method, FALSE, r)
          /\ phase' = IF r.err = NoError THEN "ready" ELSE "failed"

\* model.get_attribution_method(method, override_default_attribution)
GetAttributionMethod ==
  /\ phase # "new"
  /\ \E method \in MethodArgs, override \in BOOLEAN :
       LET g == get_attribution_method(Self, method, override)
           r == Outcome(g.st, g.ret, PyNone, g.err, g.calls)
       IN Apply("get_attribution_method", PyNone, PyNone, method, override, r)
  /\ UNCHANGED phase

\* model.attribute(texts, reference_texts, method, override_default_attribution)
Attribute ==
  /\ phase # "new"
  /\ \E texts \in TextInputs, refs \in RefInputs, method \in MethodArgs,
        override \in BOOLEAN :
       Apply("attribute", texts, refs, method, override,
             attribute(Self, texts, refs, method, override))
  /\ UNCHANGED phase

Next == Construct \/ GetAttributionMethod \/ Attribute

Spec == Init /\ [][Next]_vars

(***************************************************************************)
(* Properties                                                              *)
(***************************************************************************)
\* Number of times x occurs in seq.
Count(seq, x) == Cardinality({i \in DOMAIN seq : seq[i] = x})

\* Length of a TextInput as a sequence of texts: a single string is one text.
SeqLen(v) == IF v.tag = "str" THEN 1 ELSE Len(v.items)

IsGam(r) == r.op = "get_attribution_method"
IsAttribute(r) == r.op = "attribute"

\* last is get_attribution_method(m2, override=True), called right after a
\* resolution of m1 on a model with no stored default.
OverrideAfterFirst ==
  /\ IsGam(last) /\ TruthyMethod(last.method) /\ last.override
  /\ prev.op \in Resolutions /\ prev.pre = NoInst /\ TruthyMethod(prev.method)

\* C1: after get_attribution_method(m1) on a model with no stored default and
\* then get_attribution_method(m2, override=True), the stored default is the
\* m2 instance the second call returned, and over the two calls the m1
\* instance was unhooked exactly once and the m2 instance never.
C1_OverrideReplacesDefault ==
  OverrideAfterFirst =>
    /\ prev.err = NoError /\ last.err = NoError
    /\ last.ret # NoInst /\ last.ret # prev.ret
    /\ attribution_method = last.ret
    /\ methods[last.ret] = last.method
    /\ methods[prev.ret] = prev.method
    /\ Count(prev.unhooks, prev.ret) + Count(Unhooked(last.calls), prev.ret) = 1
    /\ Count(prev.unhooks, last.ret) + Count(Unhooked(last.calls), last.ret) = 0

C1_Witness ==
  /\ OverrideAfterFirst
  /\ prev.method = "A" /\ last.method = "B"
  /\ attribution_method = last.ret /\ methods[attribution_method] = "B"

\* last is a one-off get_attribution_method(m, override=False) on a model
\* that has a stored default.
OneOff(r, pre) == IsGam(r) /\ TruthyMethod(r.method) /\ ~r.override /\ pre # NoInst

\* C2: on a model whose stored default is A, a one-off
\* get_attribution_method(B, override=False) leaves the same A instance
\* stored and returns a new B instance that is not the stored default; a
\* get_attribution_method() that follows returns the A instance.
C2_OneOffKeepsDefault ==
  /\ OneOff(last, last.pre.am) =>
       /\ last.err = NoError
       /\ attribution_method = last.pre.am
       /\ SubSeq(methods, 1, Len(last.pre.methods)) = last.pre.methods
       /\ last.ret = Len(last.pre.methods) + 1
       /\ last.ret # attribution_method
       /\ methods[last.ret] = last.method
  /\ (IsGam(last) /\ ~TruthyMethod(last.method) /\ OneOff(prev, prev.pre)) =>
       /\ last.err = NoError
       /\ last.ret = prev.pre
       /\ last.ret # prev.ret
       /\ attribution_method = prev.pre

C2_Witness ==
  /\ IsGam(last) /\ ~TruthyMethod(last.method) /\ OneOff(prev, prev.pre)
  /\ prev.method = "B" /\ methods[prev.pre] = "A" /\ methods[prev.ret] = "B"
  /\ last.ret = prev.pre

\* C3 as claimed: a one-off get_attribution_method(B, override=False) on a
\* model whose stored default is A does not invoke A's unhook.
C3_OneOffDoesNotUnhook ==
  OneOff(last, last.pre.am) => Count(Unhooked(last.calls), last.pre.am) = 0

\* C3 as amended: a one-off get_attribution_method(B, override=False) on a
\* model whose stored default is A invokes A's unhook exactly once, before
\* B is loaded, and leaves A, detached, as the stored default.
C3_OneOffUnhooksDefault ==
  OneOff(last, last.pre.am) =>
    /\ Count(Unhooked(last.calls), last.pre.am) = 1
    /\ Len(last.calls) = 2
    /\ last.calls[1].f = "unhook" /\ last.calls[1].inst = last.pre.am
    /\ last.calls[2].f = "load" /\ last.calls[2].inst = last.ret
    /\ attribution_method = last.pre.am
    /\ attribution_method \notin hooked

C3_Witness ==
  /\ OneOff(last, last.pre.am)
  /\ last.method = "B" /\ methods[last.pre.am] = "A"
  /\ last.pre.am \in last.pre.hooked
  /\ attribution_method = last.pre.am

\* C4: for non-empty texts and non-empty reference_texts (a single string
\* being one text), attribute raises LengthMismatchError exactly when the
\* two lengths differ.
C4_LengthMismatchIff ==
  (IsAttribute(last) /\ Truthy(last.texts) /\ last.refs.tag # "none" /\ SeqLen(last.refs) >= 1) =>
    ((last.err = LengthMismatchError) <=> (SeqLen(last.texts) # SeqLen(last.refs)))

C4_Witness ==
  /\ IsAttribute(last)
  /\ last.texts = PyStr("xy") /\ last.refs = PyList(<<"x", "x">>)
  /\ last.err = LengthMismatchError

\* C5: attribute with an empty sequence of texts returns an empty list,
\* raises nothing, calls none of encode_texts, generate,
\* get_attribution_method's unhook or load, prepare_and_attribute, and
\* leaves the stored default and every other field as they were, whatever
\* the other arguments are.
C5_EmptyTextsNoOp ==
  (IsAttribute(last) /\ last.texts = PyList(<<>>)) =>
    /\ last.out = PyList(<<>>)
    /\ last.err = NoError
    /\ last.calls = <<>>
    /\ Self = last.pre

C5_Witness ==
  /\ IsAttribute(last) /\ last.texts = PyList(<<>>)
  /\ last.refs = PyList(<<"x">>) /\ last.method = "B" /\ last.override
  /\ last.pre.am # NoInst /\ last.pre.am \in last.pre.hooked
  /\ last.out = PyList(<<>>)

\* last is attribute(texts, ...) with non-empty texts and no method, on a
\* model with no stored default.
AttributeWithoutMethod ==
  IsAttribute(last) /\ Truthy(last.texts) /\ ~TruthyMethod(last.method) /\ last.pre.am = NoInst

\* C6 as claimed: attribute with non-empty texts and no method on a model
\* with no stored default raises MissingAttributionMethodError, whatever
\* reference_texts are, and never calls prepare_and_attribute.
C6_MissingMethodAlways ==
  AttributeWithoutMethod =>
    /\ last.err = MissingAttributionMethodError
    /\ CallsOf(last.calls, "prepare_and_attribute") = <<>>

\* The references of last are supplied and differ in length from its texts.
RefsMismatch ==
  last.refs.tag # "none" /\ SeqLen(last.refs) >= 1 /\ SeqLen(last.refs) # SeqLen(last.texts)

\* C6 as amended: attribute with non-empty texts and no method on a model
\* with no stored default raises MissingAttributionMethodError when
\* reference_texts are omitted, empty or as long as texts, and
\* LengthMismatchError when they differ in length; prepare_and_attribute is
\* called in neither case.
C6_MissingMethodUnlessMismatch ==
  AttributeWithoutMethod =>
    /\ last.err = IF RefsMismatch THEN LengthMismatchError ELSE MissingAttributionMethodError
    /\ CallsOf(last.calls, "prepare_and_attribute") = <<>>
    /\ attribution_method = NoInst

C6_Witness ==
  /\ AttributeWithoutMethod
  /\ last.refs = PyNone
  /\ last.err = MissingAttributionMethodError
  /\ Len(CallsOf(last.calls, "generate")) = 1

\* A single FeatureAttributionSequenceOutput, as opposed to a list of them.
SingleOutput == [tag |-> "output", s |-> "attr", items |-> <<>>]

\* C7: attribute returns a single result object for a single string, and a
\* sequence of N results for a sequence of N strings.
C7_ResultShapeFollowsInput ==
  (IsAttribute(last) /\ Truthy(last.texts) /\ last.err = NoError) =>
    IF IsStr(last.texts)
    THEN last.out = SingleOutput
    ELSE last.out.tag = "list" /\ Len(last.out.items) = Len(last.texts.items)

\* last is attribute(texts) with non-empty texts and reference_texts
\* omitted (or empty).
AttributeWithoutRefs ==
  IsAttribute(last) /\ Truthy(last.texts) /\ last.refs \in {PyNone, PyList(<<>>)}

\* C8: when attribute is called with non-empty texts and no reference_texts,
\* encode_texts and then generate are each called exactly once, on the texts
\* and on their encoding, before the method is resolved, and
\* prepare_and_attribute, when it runs, runs after them on the encoding and
\* on the outputs generate returned.
C8_GenerateBeforeAttribution ==
  AttributeWithoutRefs =>
    LET c == last.calls IN
    /\ Len(c) >= 2
    /\ c[1].f = "encode_texts" /\ c[2].f = "generate"
    /\ Len(CallsOf(c, "encode_texts")) = 1 /\ Len(CallsOf(c, "generate")) = 1
    /\ SeqLen(c[1].texts) = SeqLen(last.texts)
    /\ c[2].texts = encode_texts(c[1].texts)
    /\ \A i \in DOMAIN c : c[i].f = "prepare_and_attribute" =>
         /\ i > 2
         /\ c[i].texts = c[2].texts
         /\ c[i].refs = c[2].refs
         /\ c[i].refs.tag = "list" /\ \A k \in DOMAIN c[i].refs.items : c[i].refs.items[k] = "gen"
    /\ (last.err = NoError) <=> (CallsOf(c, "prepare_and_attribute") # <<>>)

C8_Witness ==
  /\ AttributeWithoutRefs /\ last.refs = PyNone
  /\ last.texts = PyList(<<"x", "x">>)
  /\ Len(CallsOf(last.calls, "prepare_and_attribute")) = 1
  /\ last.out.tag = "list" /\ Len(last.out.items) = 2

C10_DefaultAlwaysPresent ==
  /\ (last.op = "init" /\ ~TruthyMethod(last.method)) =>
       (last.err = MissingAttributionMethodError /\ phase = "failed")
  /\ (last.op = "init" /\ last.err = NoError) => phase = "ready"
  /\ phase = "ready" =>
       /\ attribution_method # NoInst
       /\ attribution_method \in DOMAIN methods
       /\ last.err # MissingAttributionMethodError

C10_Witness ==
  /\ phase = "ready"
  /\ IsAttribute(last) /\ last.err = LengthMismatchError
  /\ last.method = "B" /\ last.override
  /\ attribution_method # NoInst
====
